---- MODULE Spec2Model ----
(***************************************************************************)
(* GitHub webhook receiver (src/main.py): the event classifier             *)
(* (extract_push_event, extract_pull_request_event), the timestamp and     *)
(* message formatters, the webhook handler writing the event collection,   *)
(* and the polling endpoint get_events with a client that advances its     *)
(* `since` watermark.                                                      *)
(*                                                                         *)
(* Representation.  A Python string is a sequence of tokens; "" is <<>>.   *)
(* A timestamp string is a sequence of fixed-width numeric groups          *)
(*   <<year, month, day, hour, minute>> followed by nothing (no zone),     *)
(*   1 (the suffix "+00:00") or 2 (the suffix "Z"),                        *)
(* so that the order of the sequences, group by group and a proper prefix  *)
(* first, is the byte order in which MongoDB compares the strings.         *)
(* A branch ref is a sequence of path tokens, the token "refs/heads/"      *)
(* standing for that substring.  A JSON value carries its type in field t: *)
(* absent key, null, bool, str or obj (a dict, as a function from keys).   *)
(***************************************************************************)
EXTENDS Integers, Sequences, FiniteSets, TLC

VARIABLES
    store,      \* the MongoDB collection: documents in insertion order
    req,        \* the HTTP request handled last
    resp,       \* the HTTP response returned last
    since,      \* the polling client's watermark
    received,   \* the polling client: the ids it was sent once, and more than once
    payloadIn,  \* classifier input: discriminator, payload, current instant
    eventOut,   \* classifier output
    fmtIn,      \* format_timestamp input
    fmtOut      \* format_timestamp output

vars == <<store, req, resp, since, received, payloadIn, eventOut, fmtIn, fmtOut>>

-----------------------------------------------------------------------------
(* JSON / Python values *)

Absent == [t |-> "absent"]
None == [t |-> "null"]
Str(s) == [t |-> "str", v |-> s]
Bool(b) == [t |-> "bool", v |-> b]
Obj(f) == [t |-> "obj", v |-> f]
EmptyDict == Obj(<<>>)
Raised == [t |-> "raise"]
Pending == [t |-> "pending"]

IsStr(x) == x.t = "str"
IsNone(x) == x.t = "null"
IsDict(x) == x.t = "obj"
StrEq(x, s) == x.t = "str" /\ x.v = s

\* Python truth value of a JSON value
Truthy(x) ==
    CASE x.t = "str" -> Len(x.v) > 0
      [] x.t = "bool" -> x.v
      [] x.t = "obj" -> \E k \in DOMAIN x.v : x.v[k].t # "absent"
      [] OTHER -> FALSE

\* dict.get(key, default) on a dict d
Get(d, key, default) ==
    IF key \in DOMAIN d.v /\ d.v[key].t # "absent" THEN d.v[key] ELSE default

-----------------------------------------------------------------------------
(* format_timestamp *)

SuffixTable == <<"st", "nd", "rd">>

MonthNames ==
    <<"January", "February", "March", "April", "May", "June", "July",
      "August", "September", "October", "November", "December">>

IsLeap(y) == (y % 4 = 0 /\ y % 100 # 0) \/ y % 400 = 0

DaysIn(y, m) ==
    IF m = 2 THEN (IF IsLeap(y) THEN 29 ELSE 28)
    ELSE IF m \in {4, 6, 9, 11} THEN 30 ELSE 31

ValidFields(ts) ==
    /\ ts[2] \in 1..12
    /\ ts[3] \in 1..DaysIn(ts[1], ts[2])
    /\ ts[4] \in 0..23
    /\ ts[5] \in 0..59

\* datetime.fromisoformat(timestamp_str.replace('Z', '+00:00')) succeeds
ParsesIso(ts) ==
    /\ Len(ts) \in {5, 6}
    /\ ValidFields(ts)
    /\ Len(ts) = 6 => ts[6] \in {1, 2}

\* datetime.strptime(timestamp_str, "%Y-%m-%dT%H:%M:%S") succeeds
ParsesStrptime(ts) == Len(ts) = 5 /\ ValidFields(ts)

\* variant: the second range 24..30 forgotten
IsThMutant(day) == 4 <= day /\ day <= 20

\* the test `4 <= day <= 20 or 24 <= day <= 30`
IsTh(day) == (4 <= day /\ day <= 20) \/ (24 <= day /\ day <= 30)

\* the index `day % 10 - 1` into the suffix table
SuffixIndex(day) == (day % 10) - 1

\* Python list indexing: a negative index counts from the end
PyIndex(list, i) ==
    IF 0 <= i /\ i < Len(list) THEN list[i + 1]
    ELSE IF -Len(list) <= i /\ i < 0 THEN list[Len(list) + i + 1]
    ELSE "IndexError"

OrdinalSuffix(day) ==
    IF IsTh(day) THEN "th" ELSE PyIndex(SuffixTable, SuffixIndex(day))

format_timestamp(ts) ==
    IF ~ParsesIso(ts) /\ ~ParsesStrptime(ts)
    THEN [t |-> "raw", v |-> ts]
    ELSE [t |-> "fmt",
          day |-> ts[3],
          suffix |-> OrdinalSuffix(ts[3]),
          month |-> MonthNames[ts[2]],
          year |-> ts[1],
          hour |-> IF ts[4] % 12 = 0 THEN 12 ELSE ts[4] % 12,
          minute |-> ts[5],
          ampm |-> IF ts[4] < 12 THEN "AM" ELSE "PM"]

create_formatted_message(event) ==
    LET timestamp == format_timestamp(event.timestamp) IN
    IF event.action = "PUSH"
    THEN [template |-> "pushed to", author |-> event.author,
          to_branch |-> event.to_branch, on |-> timestamp]
    ELSE IF event.action = "PULL_REQUEST"
    THEN [template |-> "submitted a pull request from", author |-> event.author,
          from_branch |-> event.from_branch, to_branch |-> event.to_branch,
          on |-> timestamp]
    ELSE IF event.action = "MERGE"
    THEN [template |-> "merged branch", author |-> event.author,
          from_branch |-> event.from_branch, to_branch |-> event.to_branch,
          on |-> timestamp]
    ELSE [template |-> "Unknown action by", author |-> event.author]

-----------------------------------------------------------------------------
(* Event classifier *)

RefsHeads == "refs/heads/"

\* the GitHubEvent model: author, to_branch, timestamp are str,
\* from_branch is Optional[str]; anything else raises ValidationError
GitHubEvent(author, action, from_branch, to_branch, timestamp) ==
    IF /\ IsStr(author) /\ IsStr(to_branch) /\ IsStr(timestamp)
       /\ (IsStr(from_branch) \/ IsNone(from_branch))
    THEN [t |-> "event", author |-> author.v, action |-> action,
          from_branch |-> from_branch, to_branch |-> to_branch.v,
          timestamp |-> timestamp.v]
    ELSE Raised

\* ref.replace("refs/heads/", ""): every occurrence is removed
StripRef(ref) == SelectSeq(ref, LAMBDA tok : tok # RefsHeads)

\* the body of extract_push_event's try block
ExtractPushBody(payload, now) ==
    IF ~IsDict(payload) THEN Raised ELSE
    LET pusher == Get(payload, "pusher", EmptyDict) IN
    IF ~IsDict(pusher) THEN Raised ELSE
    LET name == Get(pusher, "name", Str(<<>>))
        sender == Get(payload, "sender", EmptyDict) IN
    IF ~Truthy(name) /\ ~IsDict(sender) THEN Raised ELSE
    LET author == IF Truthy(name) THEN name
                  ELSE Get(sender, "login", Str(<<"Unknown">>))
        ref == Get(payload, "ref", Str(<<>>)) IN
    IF Truthy(ref) /\ ~IsStr(ref) THEN Raised ELSE
    LET to_branch == IF Truthy(ref) THEN Str(StripRef(ref.v))
                     ELSE Str(<<"unknown">>)
        head_commit == Get(payload, "head_commit", EmptyDict) IN
    IF ~IsDict(head_commit) THEN Raised ELSE
    GitHubEvent(author, "PUSH", None, to_branch,
                Get(head_commit, "timestamp", Str(now)))

extract_push_event(payload, now) ==
    LET r == ExtractPushBody(payload, now) IN
    IF r.t = "raise" THEN None ELSE r

\* variant: merged_by ignored
MergeAuthorMutant(merged_by, author) == author

\* pull_request.get("merged_by", {}).get("login", author), merged_by a dict
MergeAuthor(merged_by, author) == Get(merged_by, "login", author)

\* variant: the merged flag not tested
IsMergeMutant(pr_action, is_merged, merged_at) ==
    StrEq(pr_action, <<"closed">>) /\ Truthy(merged_at)

\* pr_action == "closed" and is_merged and merged_at
IsMerge(pr_action, is_merged, merged_at) ==
    StrEq(pr_action, <<"closed">>) /\ Truthy(is_merged) /\ Truthy(merged_at)

\* the body of extract_pull_request_event's try block
ExtractPullRequestBody(payload, now) ==
    IF ~IsDict(payload) THEN Raised ELSE
    LET pr_action == Get(payload, "action", Str(<<>>))
        pull_request == Get(payload, "pull_request", EmptyDict) IN
    IF ~IsDict(pull_request) THEN Raised ELSE
    LET user == Get(pull_request, "user", EmptyDict) IN
    IF ~IsDict(user) THEN Raised ELSE
    LET login == Get(user, "login", Str(<<>>))
        sender == Get(payload, "sender", EmptyDict) IN
    IF ~Truthy(login) /\ ~IsDict(sender) THEN Raised ELSE
    LET author == IF Truthy(login) THEN login
                  ELSE Get(sender, "login", Str(<<"Unknown">>))
        head == Get(pull_request, "head", EmptyDict)
        base == Get(pull_request, "base", EmptyDict) IN
    IF ~IsDict(head) \/ ~IsDict(base) THEN Raised ELSE
    LET from_branch == Get(head, "ref", Str(<<"unknown">>))
        to_branch == Get(base, "ref", Str(<<"unknown">>))
        is_merged == Get(pull_request, "merged", Bool(FALSE))
        merged_at == Get(pull_request, "merged_at", None) IN
    IF IsMerge(pr_action, is_merged, merged_at)
    THEN LET merged_by == Get(pull_request, "merged_by", EmptyDict) IN
         IF ~IsDict(merged_by) THEN Raised ELSE
         GitHubEvent(MergeAuthor(merged_by, author), "MERGE",
                     from_branch, to_branch, merged_at)
    ELSE IF StrEq(pr_action, <<"opened">>) \/ StrEq(pr_action, <<"reopened">>)
    THEN GitHubEvent(author, "PULL_REQUEST", from_branch, to_branch,
                     Get(pull_request, "created_at", Str(now)))
    ELSE None

extract_pull_request_event(payload, now) ==
    LET r == ExtractPullRequestBody(payload, now) IN
    IF r.t = "raise" THEN None ELSE r

-----------------------------------------------------------------------------
(* The event collection and the two endpoints *)

MaxStore == 2
MaxLimit == 2

Min(a, b) == IF a < b THEN a ELSE b

\* a < b in the byte order of the strings
LexLess(a, b) ==
    \E i \in 1..(Min(Len(a), Len(b)) + 1) :
        /\ \A j \in 1..(i - 1) : a[j] = b[j]
        /\ \/ i > Len(a) /\ i <= Len(b)
           \/ i <= Len(a) /\ i <= Len(b) /\ a[i] < b[i]

\* `if since:` : the filter is built for a non-empty since only
UsesFilter(since_) == Truthy(since_)

\* the query {"timestamp": {"$gt": since}}, or {} without a filter
Matches(doc, since_) ==
    UsesFilter(since_) => LexLess(since_.v, doc.timestamp)

SortedDesc(docs) ==
    \A i, j \in 1..Len(docs) :
        i < j => ~LexLess(docs[i].timestamp, docs[j].timestamp)

\* collection.find(query).sort("timestamp", -1).limit(limit), then
\* to_list(length=limit): the matching documents, newest first, documents of
\* equal timestamp in any order, cut to `limit` (limit >= 0)
FindResults(docs, since_, limit) ==
    LET idx == {i \in 1..Len(docs) : Matches(docs[i], since_)}
        n == Cardinality(idx)
        orders == {f \in [1..n -> idx] :
                      /\ \A a, b \in 1..n : a # b => f[a] # f[b]
                      /\ SortedDesc([k \in 1..n |-> docs[f[k]]])}
    IN {[k \in 1..Min(limit, n) |-> docs[f[k]]] : f \in orders}

EventResponse(doc) ==
    [id |-> doc._id, author |-> doc.author, action |-> doc.action,
     from_branch |-> doc.from_branch, to_branch |-> doc.to_branch,
     timestamp |-> doc.timestamp,
     formatted_message |-> create_formatted_message(doc)]

\* get_events: `found` is what the cursor returned, findOk is FALSE when the
\* store raises; to_list raises on a negative length
get_events(limit, findOk, found) ==
    IF limit < 0 \/ ~findOk
    THEN [status |-> 500, detail |-> "Failed to fetch events"]
    ELSE [status |-> 200,
          body |-> [k \in 1..Len(found) |-> EventResponse(found[k])]]

Document(id, event) ==
    [_id |-> id, author |-> event.author, action |-> event.action,
     from_branch |-> event.from_branch, to_branch |-> event.to_branch,
     timestamp |-> event.timestamp]

\* variant: the newest document is overwritten instead of appended to
InsertOneMutant(docs, event) ==
    IF docs = <<>> THEN <<Document(1, event)>>
    ELSE [docs EXCEPT ![Len(docs)] = Document(Len(docs), event)]

\* event.model_dump() as inserted by insert_one, which assigns _id
InsertOne(docs, event) ==
    Append(docs, Document(Len(docs) + 1, event))

\* the event the handler extracts, or "unsupported" for another discriminator
Classify(github_event, payload, now) ==
    IF github_event = "push" THEN extract_push_event(payload, now)
    ELSE IF github_event = "pull_request"
    THEN extract_pull_request_event(payload, now)
    ELSE [t |-> "unsupported"]

\* the status of every response the handler returns normally:
\* @app.post(..., status_code=status.HTTP_201_CREATED)
ReturnStatus == 201

\* receive_github_webhook: the response, given the body, the header, the
\* clock and whether insert_one succeeds
WebhookResponse(docs, body, github_event, now, insertOk) ==
    IF body.t # "json"
    THEN [status |-> 500, detail |-> "Failed to process webhook"]
    ELSE LET event == Classify(github_event, body.v, now) IN
         IF event.t = "unsupported"
         THEN [status |-> ReturnStatus,
               body |-> [status |-> "ignored", message |-> "not supported"]]
         ELSE IF event.t = "event"
         THEN IF ~insertOk
              THEN [status |-> 500, detail |-> "Failed to process webhook"]
              ELSE [status |-> ReturnStatus,
                    body |-> [status |-> "success",
                              message |-> "Event processed and stored",
                              event_id |-> Len(docs) + 1,
                              author |-> event.author,
                              action |-> event.action,
                              to_branch |-> event.to_branch]]
         ELSE [status |-> ReturnStatus,
               body |-> [status |-> "ignored",
                         message |-> "did not match criteria"]]

\* receive_github_webhook: the collection afterwards
WebhookStore(docs, body, github_event, now, insertOk) ==
    IF body.t # "json" THEN docs
    ELSE LET event == Classify(github_event, body.v, now) IN
         IF event.t = "event" /\ insertOk THEN InsertOne(docs, event) ELSE docs

-----------------------------------------------------------------------------
(* Inputs *)

T1 == <<2021, 4, 1, 21, 30, 2>>
T2 == <<2021, 5, 2, 10, 0, 2>>
T3 == <<2021, 5, 3, 11, 0, 2>>
Now == <<2026, 11, 2, 1, 35, 1>>
Instants == {Now}

Main == <<RefsHeads, "main">>

Dict1(k, x) == Obj([i \in {k} |-> x])

PushPayload(pusher, sender, ref, head_commit) ==
    Obj([pusher |-> pusher, sender |-> sender, ref |-> ref,
         head_commit |-> head_commit])

PullRequestObj(user, head, base, merged, merged_at, merged_by, created_at) ==
    Obj([user |-> user, head |-> head, base |-> base, merged |-> merged,
         merged_at |-> merged_at, merged_by |-> merged_by,
         created_at |-> created_at])

PullRequestPayload(action, pull_request, sender) ==
    Obj([action |-> action, pull_request |-> pull_request, sender |-> sender])

Json(payload) == [t |-> "json", v |-> payload]
NotJson == [t |-> "notjson"]
JsonList == [t |-> "list"]

Discriminators == {"push", "pull_request", "issues"}

\* request bodies delivered to the running service
WebhookBodies ==
    {Json(PushPayload(Dict1("name", Str(<<"alice">>)), Absent, Str(Main), hc)) :
        hc \in {Absent, None} \cup
               {Dict1("timestamp", Str(ts)) : ts \in {<<>>, T1, T2}}}
    \cup
    {Json(PullRequestPayload(Str(<<"opened">>),
            PullRequestObj(Dict1("login", Str(<<"bob">>)), Dict1("ref", ref),
                           Dict1("ref", Str(<<"main">>)), Bool(FALSE), None,
                           None, Str(T1)),
            Absent)) : ref \in {Str(<<"dev">>), None}}
    \cup
    {Json(PullRequestPayload(Str(<<"closed">>),
            PullRequestObj(Dict1("login", Str(<<"bob">>)),
                           Dict1("ref", Str(<<"dev">>)),
                           Dict1("ref", Str(<<"main">>)), Bool(m), at,
                           Dict1("login", Str(<<"carol">>)), Str(T1)),
            Absent)) : m \in {TRUE}, at \in {Str(T3), None}}
    \cup {Json(JsonList), NotJson}

SincePool == {None} \cup {Str(ts) : ts \in {<<>>, T1, T2, T3}}

-----------------------------------------------------------------------------
(* The service *)

NoRequest == [op |-> "none"]

Init ==
    /\ store = <<>>
    /\ req = NoRequest
    /\ resp = NoRequest
    /\ since = None
    /\ received = [once |-> {}, twice |-> {}]
    /\ payloadIn = NoRequest
    /\ eventOut = Pending
    /\ fmtIn = <<>>
    /\ fmtOut = Pending

Idle == req.op = "none"

\* POST /webhook/github
ReceiveGithubWebhook ==
    /\ Idle
    /\ \E body \in WebhookBodies, ge \in Discriminators, now \in Instants,
          insertOk \in BOOLEAN :
        LET docs == WebhookStore(store, body, ge, now, insertOk) IN
        /\ Len(docs) <= MaxStore
        /\ req' = [op |-> "webhook", github_event |-> ge, body |-> body,
                   now |-> now, insertOk |-> insertOk]
        /\ resp' = WebhookResponse(store, body, ge, now, insertOk)
        /\ store' = docs
        /\ UNCHANGED <<since, received, payloadIn, eventOut, fmtIn, fmtOut>>

\* GET /api/events?since=..&limit=..
GetEvents ==
    /\ Idle
    /\ \E s \in SincePool, limit \in (-1)..MaxLimit, findOk \in BOOLEAN :
        \E found \in FindResults(store, s, limit) :
            /\ req' = [op |-> "poll", since |-> s, limit |-> limit,
                       findOk |-> findOk]
            /\ resp' = get_events(limit, findOk, found)
            /\ UNCHANGED <<store, since, received, payloadIn, eventOut,
                           fmtIn, fmtOut>>

\* the response has been sent; the service waits for the next request
Respond ==
    /\ ~Idle
    /\ req' = NoRequest
    /\ resp' = NoRequest
    /\ UNCHANGED <<store, since, received, payloadIn, eventOut, fmtIn, fmtOut>>

Next == ReceiveGithubWebhook \/ GetEvents \/ Respond

Spec == Init /\ [][Next]_vars

-----------------------------------------------------------------------------
(* The polling client: it polls with its watermark and, from a non-empty   *)
(* response, takes the timestamp of the newest record as the new watermark *)

AdvanceWatermark(since_, r) ==
    IF r.status = 200 /\ Len(r.body) > 0 THEN Str(r.body[1].timestamp)
    ELSE since_

Receive(rcv, r) ==
    LET ids == IF r.status = 200 THEN {r.body[k].id : k \in 1..Len(r.body)}
               ELSE {}
    IN [once |-> rcv.once \cup ids, twice |-> rcv.twice \cup (rcv.once \cap ids)]

ClientPollWith(limit, findOk) ==
    /\ Idle
    /\ \E found \in FindResults(store, since, limit) :
        LET r == get_events(limit, findOk, found) IN
        /\ req' = [op |-> "poll", since |-> since, limit |-> limit,
                   findOk |-> findOk]
        /\ resp' = r
        /\ since' = AdvanceWatermark(since, r)
        /\ received' = Receive(received, r)
        /\ UNCHANGED <<store, payloadIn, eventOut, fmtIn, fmtOut>>

ClientPoll == \E limit \in 1..MaxLimit, findOk \in BOOLEAN : ClientPollWith(limit, findOk)

\* a poll the store answers
ClientPollAnswered == \E limit \in 1..MaxLimit : ClientPollWith(limit, TRUE)

ClientNext == ReceiveGithubWebhook \/ ClientPoll \/ Respond

\* every response is eventually sent, and the client keeps polling and is
\* answered again and again
ClientSpec ==
    /\ Init
    /\ [][ClientNext]_vars
    /\ WF_vars(Respond)
    /\ SF_vars(ClientPollAnswered)

-----------------------------------------------------------------------------
(* Properties of the service *)

PollAnswered == req.op = "poll" /\ resp.status = 200

\* C1: a poll with since = T returns no record whose timestamp is less than
\* or equal to T, returns at most `limit` records, and returns them ordered
\* by timestamp descending.
C1_PollAfterWatermark ==
    (PollAnswered /\ IsStr(req.since)) =>
        /\ \A k \in 1..Len(resp.body) :
               LexLess(req.since.v, resp.body[k].timestamp)
        /\ Len(resp.body) <= req.limit
        /\ SortedDesc(resp.body)

\* C7: every stored PUSH event has from_branch absent (null), every stored
\* PULL_REQUEST or MERGE event has from_branch present (a string).
C7_FromBranchByAction ==
    \A i \in 1..Len(store) :
        /\ store[i].action = "PUSH" => IsNone(store[i].from_branch)
        /\ store[i].action \in {"PULL_REQUEST", "MERGE"} =>
               IsStr(store[i].from_branch)

Ignored(r) == r.status \in {200, 201} /\ r.body.status = "ignored"

\* what the classifier makes of the delivery handled in the next state
Classified(r) == Classify(r.github_event, r.body.v, r.now)

\* the records present before a step are the same records after it
StoreKept ==
    /\ Len(store') >= Len(store)
    /\ \A i \in 1..Len(store) : store'[i] = store[i]

\* a step changes the store only by a delivery appending one record
StoreGrowsByDelivery ==
    store' # store =>
        /\ req'.op = "webhook"
        /\ Len(store') = Len(store) + 1

C9_ResponseStatus ==
    req.op = "webhook" =>
        /\ (resp.status # 500 /\ resp.body.status = "success") =>
               resp.status = 201
        /\ (resp.status # 500 /\ resp.body.status = "ignored") =>
               resp.status = 200
        /\ resp.status = 500 =>
               \/ req.body.t # "json"
               \/ Classified(req).t = "event" /\ ~req.insertOk

-----------------------------------------------------------------------------
(* Properties of the polling client *)

\* C2: no stored record is delivered to the client in two poll responses.
C2_NeverDeliveredTwice == received.twice = {}

NoTies ==
    \A i, j \in 1..Len(store) :
        i # j => store[i].timestamp # store[j].timestamp

\* C3: if no two stored events ever share a timestamp, every stored record
\* is eventually delivered to the client.
C3_EveryRecordDelivered ==
    []NoTies =>
        \A id \in 1..MaxStore :
            (id <= Len(store)) ~> (id \in received.once)

-----------------------------------------------------------------------------
(* The classifier on its own: every payload of the pools below *)

Logins(name) == {Absent, None, Str(<<>>), Str(<<name>>)}

Holders(key, values) == {Absent, None} \cup {Dict1(key, x) : x \in values}

Refs ==
    {Absent, None, Str(<<>>), Str(Main), Str(<<"main">>), Str(<<RefsHeads>>),
     Str(<<RefsHeads, RefsHeads, "x">>), Str(<<"refs/tags/", RefsHeads, "x">>)}

PushPayloads ==
    {PushPayload(pusher, sender, ref, head_commit) :
        pusher \in Holders("name", Logins("alice")),
        sender \in Holders("login", Logins("dan")),
        ref \in Refs,
        head_commit \in Holders("timestamp", {Absent, None, Str(<<>>), Str(T1)})}

BranchHolders(name) ==
    {Absent, None, Dict1("ref", None), Dict1("ref", Str(<<name>>))}

PullRequestObjs ==
    {PullRequestObj(user, head, base, merged, merged_at, merged_by, created_at) :
        user \in {Absent, None, Dict1("login", Str(<<>>)),
                  Dict1("login", Str(<<"bob">>))},
        head \in BranchHolders("dev"),
        base \in BranchHolders("main") \ {None},
        merged \in {Absent, Bool(FALSE), Bool(TRUE)},
        merged_at \in {Absent, None, Str(<<>>), Str(T3)},
        merged_by \in {Absent, None, Dict1("login", Str(<<>>)),
                       Dict1("login", Str(<<"carol">>))},
        created_at \in {Absent, None, Str(T2)}}

SubActions ==
    {Str(<<"opened">>), Str(<<"reopened">>), Str(<<"closed">>),
     Str(<<"synchronize">>)}

PullRequestPayloads ==
    {PullRequestPayload(action, pull_request, sender) :
        action \in SubActions,
        pull_request \in PullRequestObjs,
        sender \in {Absent, Dict1("login", Str(<<"dan">>))}}
    \cup
    {PullRequestPayload(action, pull_request, Absent) :
        action \in SubActions \cup {Absent},
        pull_request \in {Absent, None}}

InitExtract ==
    /\ store = <<>>
    /\ req = NoRequest
    /\ resp = NoRequest
    /\ since = None
    /\ received = [once |-> {}, twice |-> {}]
    /\ payloadIn \in
          {[github_event |-> "push", payload |-> p, now |-> n] :
              p \in PushPayloads \cup {JsonList}, n \in Instants}
          \cup
          {[github_event |-> "pull_request", payload |-> p, now |-> n] :
              p \in PullRequestPayloads \cup {JsonList}, n \in Instants}
    /\ eventOut = Pending
    /\ fmtIn = <<>>
    /\ fmtOut = Pending

ExtractPush ==
    /\ eventOut = Pending
    /\ payloadIn.github_event = "push"
    /\ eventOut' = extract_push_event(payloadIn.payload, payloadIn.now)
    /\ UNCHANGED <<store, req, resp, since, received, payloadIn, fmtIn, fmtOut>>

ExtractPullRequest ==
    /\ eventOut = Pending
    /\ payloadIn.github_event = "pull_request"
    /\ eventOut' = extract_pull_request_event(payloadIn.payload, payloadIn.now)
    /\ UNCHANGED <<store, req, resp, since, received, payloadIn, fmtIn, fmtOut>>

NextExtract == ExtractPush \/ ExtractPullRequest

SpecExtract == InitExtract /\ [][NextExtract]_vars

-----------------------------------------------------------------------------
(* Properties of the classifier *)

\* the value at `key` of a payload node, Absent when the node is no dict
At(d, key) ==
    IF d.t = "obj" /\ key \in DOMAIN d.v THEN d.v[key] ELSE Absent

NonEmptyStr(x) == x.t = "str" /\ Len(x.v) > 0
StrOrAbsent(x) == x.t \in {"str", "absent"}
DictOrAbsent(x) == x.t \in {"obj", "absent"}

PrDone == payloadIn.github_event = "pull_request" /\ eventOut # Pending
PushDone == payloadIn.github_event = "push" /\ eventOut # Pending

Pr == At(payloadIn.payload, "pull_request")
SubAction == At(payloadIn.payload, "action")

\* closed, merged = true, merged_at holding a value
ClosedMerged ==
    /\ StrEq(SubAction, <<"closed">>)
    /\ At(Pr, "merged") = Bool(TRUE)
    /\ NonEmptyStr(At(Pr, "merged_at"))

Opened == StrEq(SubAction, <<"opened">>) \/ StrEq(SubAction, <<"reopened">>)

\* every field that is present holds a value of the type the handler expects
PrWellTyped ==
    /\ payloadIn.payload.t = "obj"
    /\ StrOrAbsent(SubAction)
    /\ DictOrAbsent(Pr)
    /\ \A k \in {"user", "head", "base", "merged_by"} : DictOrAbsent(At(Pr, k))
    /\ DictOrAbsent(At(payloadIn.payload, "sender"))
    /\ StrOrAbsent(At(At(Pr, "user"), "login"))
    /\ StrOrAbsent(At(At(Pr, "merged_by"), "login"))
    /\ StrOrAbsent(At(At(payloadIn.payload, "sender"), "login"))
    /\ StrOrAbsent(At(At(Pr, "head"), "ref"))
    /\ StrOrAbsent(At(At(Pr, "base"), "ref"))
    /\ At(Pr, "merged").t \in {"bool", "absent"}
    /\ At(Pr, "merged_at").t \in {"str", "null", "absent"}
    /\ StrOrAbsent(At(Pr, "created_at"))

\* the decision of C4, with the timestamp a PULL_REQUEST event must carry
PrDecision(created) ==
    /\ ClosedMerged =>
          eventOut.t = "event" /\ eventOut.action = "MERGE"
    /\ (~ClosedMerged /\ Opened) =>
          /\ eventOut.t = "event"
          /\ eventOut.action = "PULL_REQUEST"
          /\ eventOut.timestamp \in created
    /\ (~ClosedMerged /\ ~Opened) => eventOut = None

Submitter ==
    IF NonEmptyStr(At(At(Pr, "user"), "login"))
    THEN At(At(Pr, "user"), "login")
    ELSE IF At(At(payloadIn.payload, "sender"), "login").t # "absent"
    THEN At(At(payloadIn.payload, "sender"), "login")
    ELSE Str(<<"Unknown">>)

\* a branch of the event against the payload's ref, "unknown" when missing
BranchIs(branch, ref) ==
    /\ IsStr(ref) => branch = ref.v
    /\ ref.t = "absent" => branch = <<"unknown">>

PushWellFormed ==
    /\ payloadIn.payload.t = "obj"
    /\ \A k \in {"pusher", "sender", "head_commit"} :
           DictOrAbsent(At(payloadIn.payload, k))
    /\ StrOrAbsent(At(At(payloadIn.payload, "pusher"), "name"))
    /\ StrOrAbsent(At(At(payloadIn.payload, "sender"), "login"))
    /\ StrOrAbsent(At(payloadIn.payload, "ref"))
    /\ StrOrAbsent(At(At(payloadIn.payload, "head_commit"), "timestamp"))

\* the first of the values that is given, reading "given" either as present
\* or as present and non-empty
FirstGiven(a, b, default) ==
    {IF a.t # "absent" THEN a.v ELSE IF b.t # "absent" THEN b.v ELSE default,
     IF NonEmptyStr(a) THEN a.v ELSE IF NonEmptyStr(b) THEN b.v ELSE default,
     IF NonEmptyStr(a) THEN a.v ELSE IF b.t # "absent" THEN b.v ELSE default}

\* ref with the prefix refs/heads/ stripped if it starts with it
StripPrefix(ref) ==
    IF Len(ref) > 0 /\ Head(ref) = RefsHeads THEN Tail(ref) ELSE ref

\* C6: a push payload in which any of the four fields may be missing always
\* gives an event with action PUSH, from_branch absent, author pusher.name
\* else sender.login else "Unknown", to_branch the ref with the refs/heads/
\* prefix stripped else "unknown", timestamp head_commit.timestamp else the
\* current instant.
C6_PushFields ==
    (PushDone /\ PushWellFormed) =>
        /\ eventOut.t = "event"
        /\ eventOut.action = "PUSH"
        /\ IsNone(eventOut.from_branch)
        /\ eventOut.author \in
              FirstGiven(At(At(payloadIn.payload, "pusher"), "name"),
                         At(At(payloadIn.payload, "sender"), "login"),
                         <<"Unknown">>)
        /\ eventOut.to_branch =
              (IF NonEmptyStr(At(payloadIn.payload, "ref"))
               THEN StripPrefix(At(payloadIn.payload, "ref").v)
               ELSE <<"unknown">>)
        /\ eventOut.timestamp =
              (IF IsStr(At(At(payloadIn.payload, "head_commit"), "timestamp"))
               THEN At(At(payloadIn.payload, "head_commit"), "timestamp").v
               ELSE payloadIn.now)

-----------------------------------------------------------------------------
(* format_timestamp on its own *)

\* timestamp strings: every day number from 0 to 32 in every month of a
\* common and a leap year, with no zone, "+00:00", "Z" or an unreadable zone,
\* and two strings that are no timestamp at all
FormatInputs ==
    {<<y, m, d, h, 30>> : y \in {2021, 2024}, m \in 1..12, d \in 0..32,
                          h \in {0, 9, 12, 21, 24}}
    \cup
    {<<y, m, d, h, 30, z>> : y \in {2021}, m \in 1..12, d \in 0..32,
                             h \in {9, 21}, z \in {1, 2, 3}}
    \cup {<<>>, <<2021>>}

InitFormat ==
    /\ store = <<>>
    /\ req = NoRequest
    /\ resp = NoRequest
    /\ since = None
    /\ received = [once |-> {}, twice |-> {}]
    /\ payloadIn = NoRequest
    /\ eventOut = Pending
    /\ fmtIn \in FormatInputs
    /\ fmtOut = Pending

FormatTimestamp ==
    /\ fmtOut = Pending
    /\ fmtOut' = format_timestamp(fmtIn)
    /\ UNCHANGED <<store, req, resp, since, received, payloadIn, eventOut, fmtIn>>

NextFormat == FormatTimestamp

SpecFormat == InitFormat /\ [][NextFormat]_vars

\* the suffix rule of the specification
RuleSuffix(d) ==
    IF d \in {1, 21, 31} THEN "st"
    ELSE IF d \in {2, 22} THEN "nd"
    ELSE IF d \in {3, 23} THEN "rd"
    ELSE "th"

\* C10: for every day of month of a parsed timestamp the suffix is "st" for
\* 1, 21, 31, "nd" for 2, 22, "rd" for 3, 23 and "th" otherwise, and the
\* suffix table is never indexed outside its three entries.
C10_OrdinalSuffix ==
    fmtOut.t = "fmt" =>
        /\ fmtOut.day = fmtIn[3]
        /\ fmtOut.day \in 1..31
        /\ fmtOut.suffix = RuleSuffix(fmtOut.day)
        /\ ~IsTh(fmtOut.day) => SuffixIndex(fmtOut.day) \in 0..2

\* the 31st of a month was formatted through the suffix table
C10_Witness ==
    /\ fmtOut.t = "fmt"
    /\ fmtOut.day = 31
    /\ fmtOut.suffix = "st"
    /\ ~IsTh(fmtOut.day)

====
